---- MODULE Spec2Model ----
(***************************************************************************)
(* Model of the Linux backends of the daemon package: the systemd backend  *)
(* (daemon_linux_systemd.go), the init-script backend with the init script *)
(* it renders (systemVRecord and systemVConfig), and newDaemon.             *)
(*                                                                         *)
(* Text (command output, returned messages, the description) is a sequence *)
(* of tokens; a token is a record [k, v]: k is the literal text, v the     *)
(* number that follows it (0 when none). A regular expression of the code  *)
(* that is a literal matches when a token carries that literal.            *)
(***************************************************************************)
EXTENDS Integers, Sequences, FiniteSets, TLC

\* ---------------------------------------------------------------- bounds
\* process ids the host hands out: 1..MaxPid (0 stands for "none")
MaxPid == 2
\* how many of the seven symlink/remove calls may fail for a reason other
\* than the link already existing (resp. missing) in one call
MaxLinkFaults == 1

\* processes that call Install for the same service at the same time
MaxRacers == 2
\* longest command output handed to a status parser on its own, in tokens
MaxText == 3

PIDs == 1..MaxPid

\* ---------------------------------------------------------------- text
W(s) == [k |-> s, v |-> 0]
Num(s, n) == [k |-> s, v |-> n]

\* the two markers every action message ends with, and the errors
failed == W("[FAILED]")
success == W("[  OK  ]")
ErrNil == "nil"
ErrPermissionDenied == "PermissionDenied"
ErrAlreadyInstalled == "ErrAlreadyInstalled"
ErrNotInstalled == "ErrNotInstalled"
ErrAlreadyRunning == "ErrAlreadyRunning"
ErrAlreadyStopped == "ErrAlreadyStopped"
\* an error of the os package (Create, Chmod, Remove, Readlink)
ErrIO == "IOError"
\* an error of os/exec (the command could not run or exited non-zero)
ErrExit == "ExitError"

Contains(text, tok) == \E i \in 1..Len(text) : text[i] = tok
ContainsKey(text, key) == \E i \in 1..Len(text) : text[i].k = key
\* regexp.FindStringSubmatch for "<key>([0-9]+)": the number of the first match
FirstNum(text, key) ==
  LET idx == {i \in 1..Len(text) : text[i].k = key}
  IN  IF idx = {} THEN 0
      ELSE text[CHOOSE i \in idx : \A j \in idx : i <= j].v

\* The characters of the strings a pattern is matched against; a string that is
\* not listed is one symbol no pattern of the code looks inside.
Spell(s) ==
  CASE s = "foo" -> <<"f", "o", "o">>
    [] s = "f.o" -> <<"f", ".", "o">>
    [] s = "fxo" -> <<"f", "x", "o">>
    [] s = "f(o" -> <<"f", "(", "o">>
    [] OTHER -> <<s>>

\* regexp.Compile: of the characters above, "(" opens a group that is never closed
ReCompiles(p) == \A i \in 1..Len(p) : p[i] # "("

\* the compiled pattern p finds a match inside t: "." stands for any character
ReFind(p, t) ==
  \E off \in 0..(Len(t) - Len(p)) :
    \A i \in 1..Len(p) : p[i] = "." \/ p[i] = t[off + i]

\* regexp.MatchString(pattern, text) returning (matched, err), read as
\* `err == nil && matched`
MatchString(pattern, text) ==
  /\ ReCompiles(Spell(pattern))
  /\ \E i \in 1..Len(text) : ReFind(Spell(pattern), Spell(text[i].k))

\* ---------------------------------------------------------------- descriptor
Name == "foo"
Descriptions == { <<W("Foo"), W("Service")>>, <<W("foo"), W("daemon")>> }
Descriptors ==
  [name : {Name}, port : {":8080"}, version : {"1.0"},
   description : Descriptions, dependencies : {<<>>}]


\* ---------------------------------------------------------------- host state
\* The seven rc symlinks Install makes: S87<name> in rc2..5.d, K17<name> in rc0,1,6.d
StartLevels == <<2, 3, 4, 5>>
KillLevels == <<0, 1, 6>>
LinkPaths == {<<StartLevels[i], "S87">> : i \in 1..Len(StartLevels)}
             \cup {<<KillLevels[i], "K17">> : i \in 1..Len(KillLevels)}

NoFile == [content |-> "absent", mode |-> "none"]

\* what `systemctl status <name>.service` may print (stdout), and whether it exits 0
\* (the parsers meet every output of up to MaxText tokens under ParserSpec)
SystemdOutputs ==
  { <<>>,
    <<W("Active: active"), Num("Main PID: ", 1)>>,
    <<W("Active: active")>>,
    <<W("Active: inactive")>>,
    <<Num("Main PID: ", 1)>> }
SystemdResponses == {[ok |-> FALSE, out |-> <<>>]} \cup [ok : {TRUE}, out : SystemdOutputs]

\* the value x named inside F: a local constant of the code (r := f(); ... r ...)
With(x, F(_)) == F(x)

\* one entry of a call's log: a file-system call or command the call made
Ev(e, lvl, arg, ok) == [e |-> e, lvl |-> lvl, arg |-> arg, ok |-> ok]

VARIABLES
  marker,    \* /run/systemd/system exists
  backend,   \* "systemd" or "systemv": the record type newDaemon returned
  linux,     \* the record's fields (name, port, version, description, dependencies)
  defFile,   \* the definition file at servicePath()
  links,     \* which of the rc symlinks exist
  enabled,   \* systemd: the unit is enabled
  unit,      \* systemd: what `systemctl status` answers now
  pidfile,   \* init script: content of /var/run/<name>.pid, 0 when the file is absent
  lockfile,  \* init script: /var/lock/subsys/<name> exists
  alive,     \* live processes
  listener,  \* the process lsof reports on the configured port, 0 when none
  call,      \* the last call of the Daemon interface and what it returned
  racers     \* the Install calls in progress side by side: where each one stands

hostVars == <<defFile, links, enabled, unit, pidfile, lockfile, alive, listener>>
vars == <<marker, backend, linux, defFile, links, enabled, unit, pidfile, lockfile,
          alive, listener, call, racers>>

World == [defFile |-> defFile, links |-> links, enabled |-> enabled, unit |-> unit,
          pidfile |-> pidfile, lockfile |-> lockfile, alive |-> alive,
          listener |-> listener]

\* ---------------------------------------------------------------- the rendered init script
\* kill -9 <p>
Kill(w, p) == [w EXCEPT !.alive = @ \ {p}, !.listener = IF @ = p THEN 0 ELSE @]

\* clear(): rm -f $pidfile; rm -f $lockfile
clear(w) == [w EXCEPT !.pidfile = 0, !.lockfile = FALSE]

stoppedLine(d) == d.description \o <<W("is"), W("stopped")>>
runningLine(d, p) == d.description \o <<W("is"), W("running"), Num("pid  ", p)>>

\* rh_status(): pidCmd is the pid lsof finds on the port, pid the PID file's content
rh_status(w, d) ==
  LET pidCmd == w.listener
      pid == w.pidfile
  IN  IF w.pidfile = 0 /\ pidCmd = 0
      THEN [w |-> w, rc |-> 1, out |-> stoppedLine(d), ev |-> <<>>]
      ELSE IF pidCmd # pid
      THEN LET w1 == IF pid # 0 THEN Kill(w, pid) ELSE w
               ev1 == IF pid # 0 THEN <<Ev("kill", pid, "status", pid \in w.alive)>> ELSE <<>>
           IN  IF pidCmd # 0
               THEN [w |-> [w1 EXCEPT !.pidfile = pidCmd, !.lockfile = TRUE],
                     rc |-> 0, out |-> runningLine(d, pidCmd), ev |-> ev1]
               ELSE [w |-> clear(w1), rc |-> 1, out |-> stoppedLine(d), ev |-> ev1]
      ELSE [w |-> w, rc |-> 0, out |-> runningLine(d, pid), ev |-> <<>>]

\* the pid the kernel gives the next process
NewPid(w) == CHOOSE p \in PIDs : p \notin w.alive

\* start(): execOk is [ -x $exec ], listens whether the new process opens the port
start(w, execOk, listens) ==
  IF ~execOk THEN [w |-> w, rc |-> 5, ev |-> <<>>]
  ELSE LET w1 == IF w.pidfile # 0 /\ w.pidfile \notin w.alive
                 THEN [w EXCEPT !.pidfile = 0, !.lockfile = FALSE] ELSE w
       IN  IF w1.pidfile = 0
           THEN LET p == NewPid(w1)
                IN  [w |-> [w1 EXCEPT !.alive = @ \cup {p}, !.pidfile = p,
                                      !.lockfile = TRUE,
                                      !.listener = IF @ = 0 /\ listens THEN p ELSE @],
                     rc |-> 0, ev |-> <<Ev("exec", p, "start", TRUE)>>]
           ELSE [w |-> w1, rc |-> 7, ev |-> <<>>]

\* stop(): kill -9 $(cat $pidfile) && rm -f $pidfile; the lock goes when that worked
stop(w) ==
  LET pid == w.pidfile
      killed == pid # 0 /\ pid \in w.alive
  IN  IF killed
      THEN [w |-> clear(Kill(w, pid)), rc |-> 0, ev |-> <<Ev("kill", pid, "stop", TRUE)>>]
      ELSE [w |-> w, rc |-> 1, ev |-> <<Ev("kill", pid, "stop", FALSE)>>]

\* restart(): stop, then start
restart(w, execOk, listens) ==
  With(stop(w), LAMBDA s :
    With(start(s.w, execOk, listens), LAMBDA t :
      [w |-> t.w, rc |-> t.rc, ev |-> s.ev \o t.ev]))

\* case "$1" in ... esac; exit $?  -- stdout is what status and execpath print
Script(w, d, verb, execOk, listens) ==
  CASE verb = "status" ->
         rh_status(w, d)
    [] verb = "start" ->
         With(rh_status(w, d), LAMBDA q :
           IF q.rc = 0 THEN [w |-> q.w, rc |-> 0, out |-> <<>>, ev |-> q.ev]
           ELSE With(start(q.w, execOk, listens), LAMBDA s :
                  [w |-> s.w, rc |-> s.rc, out |-> <<>>, ev |-> q.ev \o s.ev]))
    [] verb = "stop" ->
         With(rh_status(w, d), LAMBDA q :
           IF q.rc # 0 THEN [w |-> q.w, rc |-> 0, out |-> <<>>, ev |-> q.ev]
           ELSE With(stop(q.w), LAMBDA s :
                  [w |-> s.w, rc |-> s.rc, out |-> <<>>, ev |-> q.ev \o s.ev]))
    [] verb = "restart" ->
         With(restart(w, execOk, listens), LAMBDA r :
           [w |-> r.w, rc |-> r.rc, out |-> <<>>, ev |-> r.ev])
    [] verb = "execpath" ->
         [w |-> w, rc |-> 0, out |-> <<W("/usr/bin/foo")>>, ev |-> <<>>]
    [] OTHER ->
         [w |-> w, rc |-> 2, out |-> <<>>, ev |-> <<>>]

\* ---------------------------------------------------------------- helpers of the backends
\* What a call draws from its environment:
\*   priv     the caller holds the privileges checkPrivileges asks for
\*   fault    the step of Install/Remove that fails ("none" when none does): "create",
\*            "execpath", "render", "chmod", "reload", "enable", "disable", "remove"
\*   lf       the symlinks whose Symlink/Remove call fails for an outside reason
\*            (a Symlink over an existing link and a Remove of a missing one fail anyway)
\*   cmdOk    the systemctl action command (or a foreign service script) exits 0
\*   unit2    what `systemctl status` answers after a successful action command
\*   execOk   the init script finds $exec executable
\*   listens  a process the init script starts opens the configured port
\*   svc      ExecPath's serviceName argument
\* the links an outside reason is tried on: the first and the last one of the
\* first loop and the first one of the second loop
FaultProne == {<<2, "S87">>, <<5, "S87">>, <<0, "K17">>}
LinkFaults(among) ==
  {f \in SUBSET (among \cap FaultProne) : Cardinality(f) <= MaxLinkFaults}

checkPrivileges(in) ==
  IF in.priv THEN [ok |-> TRUE, err |-> ErrNil]
  ELSE [ok |-> FALSE, err |-> ErrPermissionDenied]

\* os.Stat(servicePath()) succeeds
isInstalled(w) == w.defFile.content # "absent"

\* what a call leaves behind: the host, the (message, error) pair it returns, the log
\* of the file-system calls and commands it made, and what checkRunning told it
Ret(w, msg, err, log) == [w |-> w, msg |-> msg, err |-> err, log |-> log, det |-> "n/a"]
RetDet(w, msg, err, log, running) ==
  [w |-> w, msg |-> msg, err |-> err, log |-> log,
   det |-> IF running THEN "running" ELSE "stopped"]

\* exec.Command("service", name, verb): runs /etc/init.d/<name> <verb>, which is the
\* rendered script when Install wrote it whole and made it executable
ServiceCmd(w, d, svc, verb, in) ==
  IF svc # d.name
  THEN [w |-> w, ok |-> in.cmdOk,
        out |-> IF in.cmdOk THEN <<W("/usr/bin/other")>> ELSE <<>>,
        log |-> <<Ev("service", 0, verb, in.cmdOk)>>]
  ELSE IF w.defFile = [content |-> "rendered", mode |-> "0755"]
  THEN With(Script(w, d, verb, in.execOk, in.listens), LAMBDA r :
         [w |-> r.w, ok |-> r.rc = 0, out |-> r.out,
          log |-> <<Ev("service", 0, verb, r.rc = 0)>> \o r.ev])
  ELSE [w |-> w, ok |-> FALSE, out |-> <<>>, log |-> <<Ev("service", 0, verb, FALSE)>>]

\* exec.Command("systemctl", verb, ...): systemd is outside the program; a command
\* that succeeds has the effect systemd documents for it
SystemctlCmd(w, verb, in) ==
  CASE verb = "status" ->
         [w |-> w, ok |-> w.unit.ok, out |-> w.unit.out,
          log |-> <<Ev("systemctl", 0, verb, w.unit.ok)>>]
    [] verb = "execpath" ->
         [w |-> w, ok |-> in.cmdOk, out |-> <<>>,
          log |-> <<Ev("systemctl", 0, verb, in.cmdOk)>>]
    [] OTHER ->
         LET w1 == CASE ~in.cmdOk -> w
                     [] verb = "enable" -> [w EXCEPT !.enabled = TRUE]
                     [] verb = "disable" -> [w EXCEPT !.enabled = FALSE]
                     [] verb \in {"start", "stop", "restart"} -> [w EXCEPT !.unit = in.unit2]
                     [] OTHER -> w
         IN  [w |-> w1, ok |-> in.cmdOk, out |-> <<>>,
              log |-> <<Ev("systemctl", 0, verb, in.cmdOk)>>]

\* the three messages checkRunning builds
msgRunningPid(d, p) == <<W("Service"), W(d.name), Num("(pid  ", p), W("is running...")>>
msgRunning(d) == <<W("Service"), W(d.name), W("is running...")>>
msgStopped(d) == <<W("Service"), W(d.name), W("is stopped")>>

\* faulty variant: a "Main PID:" line alone counts as running
systemDParse_pidAlone(d, ok, output) ==
  IF ok /\ ContainsKey(output, "Main PID: ")
  THEN [msg |-> msgRunningPid(d, FirstNum(output, "Main PID: ")), running |-> TRUE]
  ELSE IF ok /\ MatchString("Active: active", output)
  THEN [msg |-> msgRunning(d), running |-> TRUE]
  ELSE [msg |-> msgStopped(d), running |-> FALSE]

\* systemDRecord.checkRunning's reading of the command's result
systemDParse(d, ok, output) ==
  IF ok /\ MatchString("Active: active", output)
  THEN IF ContainsKey(output, "Main PID: ")
       THEN [msg |-> msgRunningPid(d, FirstNum(output, "Main PID: ")), running |-> TRUE]
       ELSE [msg |-> msgRunning(d), running |-> TRUE]
  ELSE [msg |-> msgStopped(d), running |-> FALSE]

\* systemVRecord.checkRunning's reading of the command's result
systemVParse(d, ok, output) ==
  IF ok /\ MatchString("running", output) /\ MatchString(d.name, output)
  THEN IF ContainsKey(output, "pid  ")
       THEN [msg |-> msgRunningPid(d, FirstNum(output, "pid  ")), running |-> TRUE]
       ELSE [msg |-> msgRunning(d), running |-> TRUE]
  ELSE [msg |-> msgStopped(d), running |-> FALSE]

systemDCheckRunning(w, d, in) ==
  With(SystemctlCmd(w, "status", in), LAMBDA c :
    With(systemDParse(d, c.ok, c.out), LAMBDA r :
      [w |-> c.w, msg |-> r.msg, running |-> r.running, log |-> c.log]))

systemVCheckRunning(w, d, in) ==
  With(ServiceCmd(w, d, d.name, "status", in), LAMBDA c :
    With(systemVParse(d, c.ok, c.out), LAMBDA r :
      [w |-> c.w, msg |-> r.msg, running |-> r.running, log |-> c.log]))

\* "<verb> <description>:" + failed / success
Action(verb, d) == <<W(verb)>> \o d.description \o <<W(":")>>


\* ---------------------------------------------------------------- init-script backend
\* faulty variant: the loop ends at the first Symlink that fails
RECURSIVE SymlinkAll_break(_, _, _, _, _)
SymlinkAll_break(levels, pre, lks, lf, i) ==
  IF i > Len(levels) THEN [links |-> lks, log |-> <<>>]
  ELSE LET lp == <<levels[i], pre>>
           ok == lp \notin lks /\ lp \notin lf
           rest == SymlinkAll_break(levels, pre, lks \cup {lp}, lf, i + 1)
       IN  IF ~ok THEN [links |-> lks, log |-> <<Ev("Symlink", levels[i], pre, FALSE)>>]
           ELSE [links |-> rest.links, log |-> <<Ev("Symlink", levels[i], pre, TRUE)>> \o rest.log]

\* for _, i := range levels { if err := os.Symlink(srvPath, ...); err != nil { continue } }
RECURSIVE SymlinkAll(_, _, _, _, _)
SymlinkAll(levels, pre, lks, lf, i) ==
  IF i > Len(levels) THEN [links |-> lks, log |-> <<>>]
  ELSE LET lp == <<levels[i], pre>>
           ok == lp \notin lks /\ lp \notin lf
           rest == SymlinkAll(levels, pre, IF ok THEN lks \cup {lp} ELSE lks, lf, i + 1)
       IN  [links |-> rest.links, log |-> <<Ev("Symlink", levels[i], pre, ok)>> \o rest.log]

\* faulty variant: the loop ends at the first Remove that fails
RECURSIVE RemoveAll_break(_, _, _, _, _)
RemoveAll_break(levels, pre, lks, lf, i) ==
  IF i > Len(levels) THEN [links |-> lks, log |-> <<>>]
  ELSE LET lp == <<levels[i], pre>>
           ok == lp \in lks /\ lp \notin lf
           rest == RemoveAll_break(levels, pre, lks \ {lp}, lf, i + 1)
       IN  IF ~ok THEN [links |-> lks, log |-> <<Ev("Remove", levels[i], pre, FALSE)>>]
           ELSE [links |-> rest.links, log |-> <<Ev("Remove", levels[i], pre, TRUE)>> \o rest.log]

\* for _, i := range levels { if err := os.Remove(...); err != nil { continue } }
RECURSIVE RemoveAll(_, _, _, _, _)
RemoveAll(levels, pre, lks, lf, i) ==
  IF i > Len(levels) THEN [links |-> lks, log |-> <<>>]
  ELSE LET lp == <<levels[i], pre>>
           ok == lp \in lks /\ lp \notin lf
           rest == RemoveAll(levels, pre, IF ok THEN lks \ {lp} ELSE lks, lf, i + 1)
       IN  [links |-> rest.links, log |-> <<Ev("Remove", levels[i], pre, ok)>> \o rest.log]

systemVInstall(w, d, in) ==
  LET installAction == Action("Install", d)
      p == checkPrivileges(in)
      created == [w EXCEPT !.defFile = [content |-> "empty", mode |-> "0644"]]
      partial == [w EXCEPT !.defFile = [content |-> "partial", mode |-> "0644"]]
      written == [w EXCEPT !.defFile = [content |-> "rendered", mode |-> "0644"]]
      chmodded == [w EXCEPT !.defFile = [content |-> "rendered", mode |-> "0755"]]
      s == SymlinkAll(StartLevels, "S87", w.links, in.lf, 1)
      k == SymlinkAll(KillLevels, "K17", s.links, in.lf, 1)
      cr == <<Ev("Create", 0, "", TRUE)>>
  IN  IF ~p.ok THEN Ret(w, Append(installAction, failed), p.err, <<>>)
      ELSE IF isInstalled(w) THEN Ret(w, Append(installAction, failed), ErrAlreadyInstalled, <<>>)
      ELSE IF in.fault = "create"
      THEN Ret(w, Append(installAction, failed), ErrIO, <<Ev("Create", 0, "", FALSE)>>)
      ELSE IF in.fault = "execpath"
      THEN Ret(created, Append(installAction, failed), ErrIO, cr)
      ELSE IF in.fault = "render"
      THEN Ret(partial, Append(installAction, failed), ErrIO, cr \o <<Ev("Write", 0, "", FALSE)>>)
      ELSE IF in.fault = "chmod"
      THEN Ret(written, Append(installAction, failed), ErrIO,
               cr \o <<Ev("Write", 0, "", TRUE), Ev("Chmod", 0, "", FALSE)>>)
      ELSE Ret([chmodded EXCEPT !.links = k.links], Append(installAction, success), ErrNil,
               cr \o <<Ev("Write", 0, "", TRUE), Ev("Chmod", 0, "", TRUE)>> \o s.log \o k.log)

\* faulty variant: the symlinks are deleted before the installed check
systemVRemove_linksFirst(w, d, in) ==
  LET removeAction == Action("Removing", d)
      p == checkPrivileges(in)
      s == RemoveAll(StartLevels, "S87", w.links, in.lf, 1)
      k == RemoveAll(KillLevels, "K17", s.links, in.lf, 1)
      unlinked == [w EXCEPT !.links = k.links]
  IN  IF ~p.ok THEN Ret(w, Append(removeAction, failed), p.err, <<>>)
      ELSE IF ~isInstalled(w)
      THEN Ret(unlinked, Append(removeAction, failed), ErrNotInstalled, s.log \o k.log)
      ELSE IF in.fault = "remove"
      THEN Ret(unlinked, Append(removeAction, failed), ErrIO,
               s.log \o k.log \o <<Ev("RemoveFile", 0, "", FALSE)>>)
      ELSE Ret([unlinked EXCEPT !.defFile = NoFile], Append(removeAction, success), ErrNil,
               s.log \o k.log \o <<Ev("RemoveFile", 0, "", TRUE)>>)

systemVRemove(w, d, in) ==
  LET removeAction == Action("Removing", d)
      p == checkPrivileges(in)
      s == RemoveAll(StartLevels, "S87", w.links, in.lf, 1)
      k == RemoveAll(KillLevels, "K17", s.links, in.lf, 1)
  IN  IF ~p.ok THEN Ret(w, Append(removeAction, failed), p.err, <<>>)
      ELSE IF ~isInstalled(w) THEN Ret(w, Append(removeAction, failed), ErrNotInstalled, <<>>)
      ELSE IF in.fault = "remove"
      THEN Ret(w, Append(removeAction, failed), ErrIO, <<Ev("RemoveFile", 0, "", FALSE)>>)
      ELSE Ret([w EXCEPT !.defFile = NoFile, !.links = k.links],
               Append(removeAction, success), ErrNil,
               <<Ev("RemoveFile", 0, "", TRUE)>> \o s.log \o k.log)

systemVStart(w, d, in) ==
  LET startAction == Action("Starting", d)
      p == checkPrivileges(in)
  IN  IF ~p.ok THEN Ret(w, Append(startAction, failed), p.err, <<>>)
      ELSE IF ~isInstalled(w) THEN Ret(w, Append(startAction, failed), ErrNotInstalled, <<>>)
      ELSE With(systemVCheckRunning(w, d, in), LAMBDA r :
        IF r.running
        THEN RetDet(r.w, Append(startAction, failed), ErrAlreadyRunning, r.log, TRUE)
        ELSE With(ServiceCmd(r.w, d, d.name, "start", in), LAMBDA c :
          IF ~c.ok
          THEN RetDet(c.w, Append(startAction, failed), ErrExit, r.log \o c.log, FALSE)
          ELSE RetDet(c.w, Append(startAction, success), ErrNil, r.log \o c.log, FALSE)))

systemVStop(w, d, in) ==
  LET stopAction == Action("Stopping", d)
      p == checkPrivileges(in)
  IN  IF ~p.ok THEN Ret(w, Append(stopAction, failed), p.err, <<>>)
      ELSE IF ~isInstalled(w) THEN Ret(w, Append(stopAction, failed), ErrNotInstalled, <<>>)
      ELSE With(systemVCheckRunning(w, d, in), LAMBDA r :
        IF ~r.running
        THEN RetDet(r.w, Append(stopAction, failed), ErrAlreadyStopped, r.log, FALSE)
        ELSE With(ServiceCmd(r.w, d, d.name, "stop", in), LAMBDA c :
          IF ~c.ok
          THEN RetDet(c.w, Append(stopAction, failed), ErrExit, r.log \o c.log, TRUE)
          ELSE RetDet(c.w, Append(stopAction, success), ErrNil, r.log \o c.log, TRUE)))

\* faulty variant: the installed check is missing
systemVStatus_noInstalledCheck(w, d, in) ==
  LET p == checkPrivileges(in)
  IN  IF ~p.ok THEN Ret(w, <<>>, p.err, <<>>)
      ELSE With(systemVCheckRunning(w, d, in), LAMBDA r :
        RetDet(r.w, r.msg, ErrNil, r.log, r.running))

systemVStatus(w, d, in) ==
  LET p == checkPrivileges(in)
  IN  IF ~p.ok THEN Ret(w, <<>>, p.err, <<>>)
      ELSE IF ~isInstalled(w)
      THEN Ret(w, <<W("Status could not defined")>>, ErrNotInstalled, <<>>)
      ELSE With(systemVCheckRunning(w, d, in), LAMBDA r :
        RetDet(r.w, r.msg, ErrNil, r.log, r.running))

systemVExecPath(w, d, in) ==
  LET p == checkPrivileges(in)
      serviceName == IF in.svc = "" THEN d.name ELSE in.svc
  IN  IF ~p.ok THEN Ret(w, <<>>, p.err, <<>>)
      ELSE IF ~isInstalled(w) THEN Ret(w, <<>>, ErrNotInstalled, <<>>)
      ELSE With(ServiceCmd(w, d, serviceName, "execpath", in), LAMBDA c :
        Ret(c.w, c.out, IF c.ok THEN ErrNil ELSE ErrExit, c.log))

\* faulty variant: Restart refuses a service that is not running, as Stop does
systemVRestart_needsRunning(w, d, in) ==
  LET startAction == Action("Restarting", d)
      p == checkPrivileges(in)
  IN  IF ~p.ok THEN Ret(w, Append(startAction, failed), p.err, <<>>)
      ELSE IF ~isInstalled(w) THEN Ret(w, Append(startAction, failed), ErrNotInstalled, <<>>)
      ELSE With(systemVCheckRunning(w, d, in), LAMBDA r :
        IF ~r.running
        THEN Ret(r.w, Append(startAction, failed), ErrAlreadyStopped, r.log)
        ELSE With(ServiceCmd(r.w, d, d.name, "restart", in), LAMBDA c :
          IF ~c.ok THEN Ret(c.w, Append(startAction, failed), ErrExit, r.log \o c.log)
          ELSE Ret(c.w, Append(startAction, success), ErrNil, r.log \o c.log)))

systemVRestart(w, d, in) ==
  LET startAction == Action("Restarting", d)
      p == checkPrivileges(in)
  IN  IF ~p.ok THEN Ret(w, Append(startAction, failed), p.err, <<>>)
      ELSE IF ~isInstalled(w) THEN Ret(w, Append(startAction, failed), ErrNotInstalled, <<>>)
      ELSE With(ServiceCmd(w, d, d.name, "restart", in), LAMBDA c :
        IF ~c.ok THEN Ret(c.w, Append(startAction, failed), ErrExit, c.log)
        ELSE Ret(c.w, Append(startAction, success), ErrNil, c.log))

\* ---------------------------------------------------------------- systemd backend
\* faulty variant: the installed check is missing, the unit file is created again
systemDInstall_noInstalledCheck(w, d, in) ==
  LET installAction == Action("Install", d)
      p == checkPrivileges(in)
      created == [w EXCEPT !.defFile = [content |-> "empty", mode |-> "0644"]]
      partial == [w EXCEPT !.defFile = [content |-> "partial", mode |-> "0644"]]
      written == [w EXCEPT !.defFile = [content |-> "rendered", mode |-> "0644"]]
      cr == <<Ev("Create", 0, "", TRUE)>>
      wr == <<Ev("Create", 0, "", TRUE), Ev("Write", 0, "", TRUE)>>
  IN  IF ~p.ok THEN Ret(w, Append(installAction, failed), p.err, <<>>)
      ELSE IF in.fault = "create"
      THEN Ret(w, Append(installAction, failed), ErrIO, <<Ev("Create", 0, "", FALSE)>>)
      ELSE IF in.fault = "execpath"
      THEN Ret(created, Append(installAction, failed), ErrIO, cr)
      ELSE IF in.fault = "render"
      THEN Ret(partial, Append(installAction, failed), ErrIO, cr \o <<Ev("Write", 0, "", FALSE)>>)
      ELSE With(SystemctlCmd(written, "daemon-reload", [in EXCEPT !.cmdOk = in.fault # "reload"]),
                LAMBDA rl :
        IF ~rl.ok THEN Ret(rl.w, Append(installAction, failed), ErrExit, wr \o rl.log)
        ELSE With(SystemctlCmd(rl.w, "enable", [in EXCEPT !.cmdOk = in.fault # "enable"]),
                  LAMBDA en :
          IF ~en.ok
          THEN Ret(en.w, Append(installAction, failed), ErrExit, wr \o rl.log \o en.log)
          ELSE Ret(en.w, Append(installAction, success), ErrNil, wr \o rl.log \o en.log)))

\* faulty variant: enable is run before daemon-reload
systemDInstall_enableFirst(w, d, in) ==
  LET installAction == Action("Install", d)
      p == checkPrivileges(in)
      created == [w EXCEPT !.defFile = [content |-> "empty", mode |-> "0644"]]
      partial == [w EXCEPT !.defFile = [content |-> "partial", mode |-> "0644"]]
      written == [w EXCEPT !.defFile = [content |-> "rendered", mode |-> "0644"]]
      cr == <<Ev("Create", 0, "", TRUE)>>
      wr == <<Ev("Create", 0, "", TRUE), Ev("Write", 0, "", TRUE)>>
  IN  IF ~p.ok THEN Ret(w, Append(installAction, failed), p.err, <<>>)
      ELSE IF isInstalled(w) THEN Ret(w, Append(installAction, failed), ErrAlreadyInstalled, <<>>)
      ELSE IF in.fault = "create"
      THEN Ret(w, Append(installAction, failed), ErrIO, <<Ev("Create", 0, "", FALSE)>>)
      ELSE IF in.fault = "execpath"
      THEN Ret(created, Append(installAction, failed), ErrIO, cr)
      ELSE IF in.fault = "render"
      THEN Ret(partial, Append(installAction, failed), ErrIO, cr \o <<Ev("Write", 0, "", FALSE)>>)
      ELSE With(SystemctlCmd(written, "enable", [in EXCEPT !.cmdOk = in.fault # "enable"]),
                LAMBDA en :
        IF ~en.ok THEN Ret(en.w, Append(installAction, failed), ErrExit, wr \o en.log)
        ELSE With(SystemctlCmd(en.w, "daemon-reload", [in EXCEPT !.cmdOk = in.fault # "reload"]),
                  LAMBDA rl :
          IF ~rl.ok
          THEN Ret(rl.w, Append(installAction, failed), ErrExit, wr \o en.log \o rl.log)
          ELSE Ret(rl.w, Append(installAction, success), ErrNil, wr \o en.log \o rl.log)))

systemDInstall(w, d, in) ==
  LET installAction == Action("Install", d)
      p == checkPrivileges(in)
      created == [w EXCEPT !.defFile = [content |-> "empty", mode |-> "0644"]]
      partial == [w EXCEPT !.defFile = [content |-> "partial", mode |-> "0644"]]
      written == [w EXCEPT !.defFile = [content |-> "rendered", mode |-> "0644"]]
      cr == <<Ev("Create", 0, "", TRUE)>>
      wr == <<Ev("Create", 0, "", TRUE), Ev("Write", 0, "", TRUE)>>
  IN  IF ~p.ok THEN Ret(w, Append(installAction, failed), p.err, <<>>)
      ELSE IF isInstalled(w) THEN Ret(w, Append(installAction, failed), ErrAlreadyInstalled, <<>>)
      ELSE IF in.fault = "create"
      THEN Ret(w, Append(installAction, failed), ErrIO, <<Ev("Create", 0, "", FALSE)>>)
      ELSE IF in.fault = "execpath"
      THEN Ret(created, Append(installAction, failed), ErrIO, cr)
      ELSE IF in.fault = "render"
      THEN Ret(partial, Append(installAction, failed), ErrIO, cr \o <<Ev("Write", 0, "", FALSE)>>)
      ELSE With(SystemctlCmd(written, "daemon-reload", [in EXCEPT !.cmdOk = in.fault # "reload"]),
                LAMBDA rl :
        IF ~rl.ok THEN Ret(rl.w, Append(installAction, failed), ErrExit, wr \o rl.log)
        ELSE With(SystemctlCmd(rl.w, "enable", [in EXCEPT !.cmdOk = in.fault # "enable"]),
                  LAMBDA en :
          IF ~en.ok
          THEN Ret(en.w, Append(installAction, failed), ErrExit, wr \o rl.log \o en.log)
          ELSE Ret(en.w, Append(installAction, success), ErrNil, wr \o rl.log \o en.log)))

\* faulty variant: a failed disable is reported with the success mark
systemDRemove_wrongMark(w, d, in) ==
  LET removeAction == Action("Removing", d)
      p == checkPrivileges(in)
  IN  IF ~p.ok THEN Ret(w, Append(removeAction, failed), p.err, <<>>)
      ELSE IF ~isInstalled(w) THEN Ret(w, Append(removeAction, failed), ErrNotInstalled, <<>>)
      ELSE With(SystemctlCmd(w, "disable", [in EXCEPT !.cmdOk = in.fault # "disable"]),
                LAMBDA dis :
        IF ~dis.ok THEN Ret(dis.w, Append(removeAction, success), ErrExit, dis.log)
        ELSE IF in.fault = "remove"
        THEN Ret(dis.w, Append(removeAction, failed), ErrIO,
                 dis.log \o <<Ev("RemoveFile", 0, "", FALSE)>>)
        ELSE Ret([dis.w EXCEPT !.defFile = NoFile], Append(removeAction, success), ErrNil,
                 dis.log \o <<Ev("RemoveFile", 0, "", TRUE)>>))

systemDRemove(w, d, in) ==
  LET removeAction == Action("Removing", d)
      p == checkPrivileges(in)
  IN  IF ~p.ok THEN Ret(w, Append(removeAction, failed), p.err, <<>>)
      ELSE IF ~isInstalled(w) THEN Ret(w, Append(removeAction, failed), ErrNotInstalled, <<>>)
      ELSE With(SystemctlCmd(w, "disable", [in EXCEPT !.cmdOk = in.fault # "disable"]),
                LAMBDA dis :
        IF ~dis.ok THEN Ret(dis.w, Append(removeAction, failed), ErrExit, dis.log)
        ELSE IF in.fault = "remove"
        THEN Ret(dis.w, Append(removeAction, failed), ErrIO,
                 dis.log \o <<Ev("RemoveFile", 0, "", FALSE)>>)
        ELSE Ret([dis.w EXCEPT !.defFile = NoFile], Append(removeAction, success), ErrNil,
                 dis.log \o <<Ev("RemoveFile", 0, "", TRUE)>>))

systemDStart(w, d, in) ==
  LET startAction == Action("Starting", d)
      p == checkPrivileges(in)
  IN  IF ~p.ok THEN Ret(w, Append(startAction, failed), p.err, <<>>)
      ELSE IF ~isInstalled(w) THEN Ret(w, Append(startAction, failed), ErrNotInstalled, <<>>)
      ELSE With(systemDCheckRunning(w, d, in), LAMBDA r :
        IF r.running
        THEN RetDet(r.w, Append(startAction, failed), ErrAlreadyRunning, r.log, TRUE)
        ELSE With(SystemctlCmd(r.w, "start", in), LAMBDA c :
          IF ~c.ok
          THEN RetDet(c.w, Append(startAction, failed), ErrExit, r.log \o c.log, FALSE)
          ELSE RetDet(c.w, Append(startAction, success), ErrNil, r.log \o c.log, FALSE)))

\* faulty variant: the running state is checked before the installed check
systemDStop_runningFirst(w, d, in) ==
  LET stopAction == Action("Stopping", d)
      p == checkPrivileges(in)
  IN  IF ~p.ok THEN Ret(w, Append(stopAction, failed), p.err, <<>>)
      ELSE With(systemDCheckRunning(w, d, in), LAMBDA r :
        IF ~r.running
        THEN RetDet(r.w, Append(stopAction, failed), ErrAlreadyStopped, r.log, FALSE)
        ELSE IF ~isInstalled(w)
        THEN Ret(w, Append(stopAction, failed), ErrNotInstalled, r.log)
        ELSE With(SystemctlCmd(r.w, "stop", in), LAMBDA c :
          IF ~c.ok
          THEN RetDet(c.w, Append(stopAction, failed), ErrExit, r.log \o c.log, TRUE)
          ELSE RetDet(c.w, Append(stopAction, success), ErrNil, r.log \o c.log, TRUE)))

systemDStop(w, d, in) ==
  LET stopAction == Action("Stopping", d)
      p == checkPrivileges(in)
  IN  IF ~p.ok THEN Ret(w, Append(stopAction, failed), p.err, <<>>)
      ELSE IF ~isInstalled(w) THEN Ret(w, Append(stopAction, failed), ErrNotInstalled, <<>>)
      ELSE With(systemDCheckRunning(w, d, in), LAMBDA r :
        IF ~r.running
        THEN RetDet(r.w, Append(stopAction, failed), ErrAlreadyStopped, r.log, FALSE)
        ELSE With(SystemctlCmd(r.w, "stop", in), LAMBDA c :
          IF ~c.ok
          THEN RetDet(c.w, Append(stopAction, failed), ErrExit, r.log \o c.log, TRUE)
          ELSE RetDet(c.w, Append(stopAction, success), ErrNil, r.log \o c.log, TRUE)))

\* faulty variant: a stopped service is reported as an error
systemDStatus_errWhenStopped(w, d, in) ==
  LET p == checkPrivileges(in)
  IN  IF ~p.ok THEN Ret(w, <<>>, p.err, <<>>)
      ELSE IF ~isInstalled(w)
      THEN Ret(w, <<W("Status could not defined")>>, ErrNotInstalled, <<>>)
      ELSE With(systemDCheckRunning(w, d, in), LAMBDA r :
        RetDet(r.w, r.msg, IF r.running THEN ErrNil ELSE ErrAlreadyStopped, r.log, r.running))

systemDStatus(w, d, in) ==
  LET p == checkPrivileges(in)
  IN  IF ~p.ok THEN Ret(w, <<>>, p.err, <<>>)
      ELSE IF ~isInstalled(w)
      THEN Ret(w, <<W("Status could not defined")>>, ErrNotInstalled, <<>>)
      ELSE With(systemDCheckRunning(w, d, in), LAMBDA r :
        RetDet(r.w, r.msg, ErrNil, r.log, r.running))

\* faulty variant: the privilege check comes after the command
systemDExecPath_guardLast(w, d, in) ==
  LET p == checkPrivileges(in)
  IN  IF ~isInstalled(w) THEN Ret(w, <<>>, ErrNotInstalled, <<>>)
      ELSE With(SystemctlCmd(w, "execpath", in), LAMBDA c :
        IF ~p.ok THEN Ret(c.w, <<>>, p.err, c.log)
        ELSE Ret(c.w, c.out, IF c.ok THEN ErrNil ELSE ErrExit, c.log))

systemDExecPath(w, d, in) ==
  LET p == checkPrivileges(in)
  IN  IF ~p.ok THEN Ret(w, <<>>, p.err, <<>>)
      ELSE IF ~isInstalled(w) THEN Ret(w, <<>>, ErrNotInstalled, <<>>)
      ELSE With(SystemctlCmd(w, "execpath", in), LAMBDA c :
        Ret(c.w, c.out, IF c.ok THEN ErrNil ELSE ErrExit, c.log))

systemDRestart(w, d, in) ==
  LET startAction == Action("Restarting", d)
      p == checkPrivileges(in)
  IN  IF ~p.ok THEN Ret(w, Append(startAction, failed), p.err, <<>>)
      ELSE IF ~isInstalled(w) THEN Ret(w, Append(startAction, failed), ErrNotInstalled, <<>>)
      ELSE With(SystemctlCmd(w, "restart", in), LAMBDA c :
        IF ~c.ok THEN Ret(c.w, Append(startAction, failed), ErrExit, c.log)
        ELSE Ret(c.w, Append(startAction, success), ErrNil, c.log))

\* ---------------------------------------------------------------- the Daemon a caller holds
\* newDaemon: os.Stat("/run/systemd/system") decides the record type
newDaemon(m) == IF m THEN "systemd" ELSE "systemv"

NoInput == [priv |-> TRUE, fault |-> "none", lf |-> {}, cmdOk |-> TRUE,
            unit2 |-> [ok |-> FALSE, out |-> <<>>], execOk |-> TRUE, listens |-> TRUE,
            svc |-> ""]

\* the method of the record type behind the interface
Dispatch(op, b, w, d, in) ==
  CASE op = "Install" -> IF b = "systemd" THEN systemDInstall(w, d, in) ELSE systemVInstall(w, d, in)
    [] op = "Remove" -> IF b = "systemd" THEN systemDRemove(w, d, in) ELSE systemVRemove(w, d, in)
    [] op = "Start" -> IF b = "systemd" THEN systemDStart(w, d, in) ELSE systemVStart(w, d, in)
    [] op = "Stop" -> IF b = "systemd" THEN systemDStop(w, d, in) ELSE systemVStop(w, d, in)
    [] op = "Status" -> IF b = "systemd" THEN systemDStatus(w, d, in) ELSE systemVStatus(w, d, in)
    [] op = "ExecPath" -> IF b = "systemd" THEN systemDExecPath(w, d, in) ELSE systemVExecPath(w, d, in)
    [] op = "Restart" -> IF b = "systemd" THEN systemDRestart(w, d, in) ELSE systemVRestart(w, d, in)

\* a call returns: the host is as the call left it, and `call` records the call
Commit(op, in, r) ==
  /\ defFile' = r.w.defFile
  /\ links' = r.w.links
  /\ enabled' = r.w.enabled
  /\ unit' = r.w.unit
  /\ pidfile' = r.w.pidfile
  /\ lockfile' = r.w.lockfile
  /\ alive' = r.w.alive
  /\ listener' = r.w.listener
  /\ call' = [op |-> op, priv |-> in.priv, msg |-> r.msg, err |-> r.err, log |-> r.log,
              det |-> r.det]
  /\ UNCHANGED <<marker, backend, linux, racers>>

\* faulty variant: every call stats /run/systemd/system again to pick the backend
Do_reprobe(op, in) ==
  \E r \in {Dispatch(op, newDaemon(marker), World, linux, in)} : Commit(op, in, r)

Do(op, in) == \E r \in {Dispatch(op, backend, World, linux, in)} : Commit(op, in, r)

\* What a call can meet on its backend's host. A call without privileges returns
\* before it reads anything else, and so does a call the installed check turns
\* away: one input stands for all of them.
Denied == [NoInput EXCEPT !.priv = FALSE]

\* systemd's answer to `systemctl status` once a start (restart) or a stop succeeded
AfterStart == {[ok |-> TRUE, out |-> <<W("Active: active"), Num("Main PID: ", 1)>>],
               [ok |-> TRUE, out |-> <<W("Active: active")>>]}
AfterStop == {[ok |-> FALSE, out |-> <<>>], [ok |-> TRUE, out |-> <<W("Active: inactive")>>]}

InstallInputs ==
  {Denied} \cup
  (IF isInstalled(World) THEN {NoInput}
   ELSE IF backend = "systemd"
   THEN {[NoInput EXCEPT !.fault = f] :
           f \in {"none", "create", "execpath", "render", "reload", "enable"}}
   ELSE {[NoInput EXCEPT !.fault = f] : f \in {"create", "execpath", "render", "chmod"}}
        \cup {[NoInput EXCEPT !.lf = lf] : lf \in LinkFaults(LinkPaths \ links)})

RemoveInputs ==
  {Denied} \cup
  (IF ~isInstalled(World) THEN {NoInput}
   ELSE IF backend = "systemd"
   THEN {[NoInput EXCEPT !.fault = f] : f \in {"none", "disable", "remove"}}
   ELSE {[NoInput EXCEPT !.fault = "remove"]}
        \cup {[NoInput EXCEPT !.lf = lf] : lf \in LinkFaults(links)})

StartInputs ==
  {Denied} \cup
  (IF ~isInstalled(World) THEN {NoInput}
   ELSE IF backend = "systemd"
   THEN {[NoInput EXCEPT !.cmdOk = FALSE]} \cup {[NoInput EXCEPT !.unit2 = u] : u \in AfterStart}
   ELSE {[NoInput EXCEPT !.execOk = e, !.listens = l] : e, l \in BOOLEAN})

StopInputs ==
  {Denied} \cup
  (IF ~isInstalled(World) THEN {NoInput}
   ELSE IF backend = "systemd"
   THEN {[NoInput EXCEPT !.cmdOk = FALSE]} \cup {[NoInput EXCEPT !.unit2 = u] : u \in AfterStop}
   ELSE {NoInput})

StatusInputs == {Denied} \cup {NoInput}

ExecPathInputs ==
  {Denied} \cup
  (IF ~isInstalled(World) THEN {NoInput}
   ELSE IF backend = "systemd"
   THEN {[NoInput EXCEPT !.cmdOk = c, !.svc = v] : c \in BOOLEAN, v \in {"", "other"}}
   ELSE {NoInput} \cup {[NoInput EXCEPT !.cmdOk = c, !.svc = "other"] : c \in BOOLEAN})

Install == \E in \in InstallInputs : Do("Install", in)

Remove == \E in \in RemoveInputs : Do("Remove", in)

Start == \E in \in StartInputs : Do("Start", in)

Stop == \E in \in StopInputs : Do("Stop", in)

Restart == \E in \in StartInputs : Do("Restart", in)

\* Status has no step of its own that can fail: checkRunning swallows the command's error
Status == \E in \in StatusInputs : in.fault = "none" /\ Do("Status", in)

ExecPath == \E in \in ExecPathInputs : Do("ExecPath", in)

\* ---------------------------------------------------------------- the rest of the host
EnvCall == [op |-> "env", priv |-> FALSE, msg |-> <<>>, err |-> ErrNil, log |-> <<>>,
            det |-> "n/a"]

\* a live process exits
ProcExit ==
  /\ \E p \in alive :
       /\ alive' = alive \ {p}
       /\ listener' = IF listener = p THEN 0 ELSE listener
  /\ call' = EnvCall
  /\ UNCHANGED <<marker, backend, linux, defFile, links, enabled, unit, pidfile, lockfile,
                 racers>>

\* another program starts and opens the configured port
PortTaken ==
  /\ backend = "systemv"
  /\ listener = 0
  /\ alive # PIDs
  /\ LET p == NewPid(World)
     IN  alive' = alive \cup {p} /\ listener' = p
  /\ call' = EnvCall
  /\ UNCHANGED <<marker, backend, linux, defFile, links, enabled, unit, pidfile, lockfile,
                 racers>>

\* systemd's view of the unit changes (the service exits, is started by hand, ...)
UnitChange ==
  /\ backend = "systemd"
  /\ \E u \in SystemdResponses : unit' = u /\ u # unit
  /\ call' = EnvCall
  /\ UNCHANGED <<marker, backend, linux, defFile, links, enabled, pidfile, lockfile,
                 alive, listener, racers>>

\* /run/systemd/system appears or disappears (systemd is installed or removed)
MarkerChange ==
  /\ marker' = ~marker
  /\ call' = EnvCall
  /\ UNCHANGED <<backend, linux, hostVars, racers>>

\* what an operation can meet, by operation
OpInputs(op) ==
  CASE op = "Install" -> InstallInputs
    [] op = "Remove" -> RemoveInputs
    [] op = "Start" -> StartInputs
    [] op = "Stop" -> StopInputs

\* another process that holds a Daemon for the same service installs, removes,
\* starts or stops it, with success and with no step failing
OtherActor ==
  /\ \E op \in {"Install", "Remove", "Start", "Stop"} :
       \E in \in {i \in OpInputs(op) : i.priv /\ i.fault = "none" /\ i.lf = {}} :
         \E r \in {Dispatch(op, backend, World, linux, in)} :
           /\ r.err = ErrNil
           /\ defFile' = r.w.defFile
           /\ links' = r.w.links
           /\ enabled' = r.w.enabled
           /\ unit' = r.w.unit
           /\ pidfile' = r.w.pidfile
           /\ lockfile' = r.w.lockfile
           /\ alive' = r.w.alive
           /\ listener' = r.w.listener
  /\ call' = EnvCall
  /\ UNCHANGED <<marker, backend, linux, racers>>

InitLinks == {{}, LinkPaths, {<<2, "S87">>}, {<<0, "K17">>, <<6, "K17">>}}

Init ==
  /\ marker \in BOOLEAN
  /\ backend = newDaemon(marker)
  /\ linux \in Descriptors
  /\ defFile = NoFile
  /\ links \in (IF backend = "systemd" THEN {{}} ELSE InitLinks)
  /\ enabled = FALSE
  /\ unit \in (IF backend = "systemd" THEN SystemdResponses ELSE {NoInput.unit2})
  /\ pidfile = 0
  /\ lockfile = FALSE
  /\ alive = {}
  /\ listener = 0
  /\ call = [op |-> "none", priv |-> FALSE, msg |-> <<>>, err |-> ErrNil, log |-> <<>>,
             det |-> "n/a"]
  /\ racers = <<>>

Next ==
  \/ Install
  \/ Remove
  \/ Start
  \/ Stop
  \/ Restart
  \/ Status
  \/ ExecPath
  \/ ProcExit
  \/ PortTaken
  \/ UnitChange
  \/ MarkerChange
  \/ OtherActor

Spec == Init /\ [][Next]_vars


\* ---------------------------------------------------------------- the status parsers alone
\* checkRunning of either backend on whatever the status command may answer: here
\* `unit` is the (exit status, stdout) pair of `systemctl status <name>.service`
\* resp. `service <name> status`, where /etc/init.d/<name> is any script at all.
ParserNames == {"foo", "f.o", "f(o"}
SystemdText == {W("Active: active"), W("Active: inactive"), Num("Main PID: ", 1),
                Num("Main PID: ", 2)}
InitScriptText == {W("running"), W("stopped"), W("foo"), W("fxo"), W("f(o"),
                   Num("pid  ", 1), Num("pid  ", 2)}
TextsOver(tokens) == UNION {[1..n -> tokens] : n \in 0..MaxText}

ParserCall(r) ==
  [op |-> "checkRunning", priv |-> TRUE, msg |-> r.msg, err |-> ErrNil, log |-> <<>>,
   det |-> IF r.running THEN "running" ELSE "stopped"]

systemDCheck ==
  /\ backend = "systemd"
  /\ call.op = "none"
  /\ call' = ParserCall(systemDCheckRunning(World, linux, NoInput))
  /\ UNCHANGED <<marker, backend, linux, hostVars, racers>>

systemVCheck ==
  /\ backend = "systemv"
  /\ call.op = "none"
  /\ call' = ParserCall(systemVParse(linux, unit.ok, unit.out))
  /\ UNCHANGED <<marker, backend, linux, hostVars, racers>>

ParserInit ==
  /\ marker \in BOOLEAN
  /\ backend = newDaemon(marker)
  /\ linux \in [name : IF backend = "systemd" THEN {Name} ELSE ParserNames,
                 port : {":8080"}, version : {"1.0"},
                 description : {<<W("Foo"), W("Service")>>}, dependencies : {<<>>}]
  /\ unit \in [ok : BOOLEAN,
                out : TextsOver(IF backend = "systemd" THEN SystemdText ELSE InitScriptText)]
  /\ defFile = [content |-> "rendered",
                mode |-> IF backend = "systemd" THEN "0644" ELSE "0755"]
  /\ links = {}
  /\ enabled = FALSE
  /\ pidfile = 0
  /\ lockfile = FALSE
  /\ alive = {}
  /\ listener = 0
  /\ call = [op |-> "none", priv |-> FALSE, msg |-> <<>>, err |-> ErrNil, log |-> <<>>,
             det |-> "n/a"]
  /\ racers = <<>>

ParserNext ==
  \/ systemDCheck
  \/ systemVCheck

ParserSpec == ParserInit /\ [][ParserNext]_vars


\* ---------------------------------------------------------------- Install, step by step
\* Install of either backend as the sequence of system calls and commands it is,
\* so that the calls of several processes can interleave. pc is the step a process
\* is about to make, ok whether that step succeeds.
Racers == 1..MaxRacers

StepRet(w, pc, err, ev) == [w |-> w, pc |-> pc, err |-> err, ev |-> ev]

\* faulty variant: the file is created before the installed check looks for it
InstallStep_createFirst(b, pc, w, d, ok) ==
  CASE pc = "privileges" -> StepRet(w, "installed", ErrNil, <<>>)
    [] pc = "installed" ->
         IF isInstalled(w)
         THEN StepRet([w EXCEPT !.defFile.content = "empty"], "done", ErrAlreadyInstalled,
                      <<Ev("Create", 0, "", TRUE)>>)
         ELSE StepRet([w EXCEPT !.defFile = [content |-> "empty", mode |-> "0644"]],
                      "execpath", ErrNil, <<Ev("Create", 0, "", TRUE)>>)
    [] pc = "execpath" ->
         IF ok THEN StepRet(w, "render", ErrNil, <<>>) ELSE StepRet(w, "done", ErrIO, <<>>)
    [] pc = "render" ->
         IF ok
         THEN StepRet([w EXCEPT !.defFile.content = "rendered"],
                      IF b = "systemd" THEN "reload" ELSE "chmod", ErrNil,
                      <<Ev("Write", 0, "", TRUE)>>)
         ELSE StepRet([w EXCEPT !.defFile.content = "partial"], "done", ErrIO,
                      <<Ev("Write", 0, "", FALSE)>>)
    [] OTHER -> StepRet(w, "done", IF ok THEN ErrNil ELSE ErrIO, <<>>)

InstallStep(b, pc, w, d, ok) ==
  CASE pc = "privileges" ->
         \* checkPrivileges(): the racing callers hold the privileges
         StepRet(w, "installed", ErrNil, <<>>)
    [] pc = "installed" ->
         \* if linux.isInstalled() { return ..., ErrAlreadyInstalled }
         IF isInstalled(w) THEN StepRet(w, "done", ErrAlreadyInstalled, <<>>)
         ELSE StepRet(w, "create", ErrNil, <<>>)
    [] pc = "create" ->
         \* os.Create(srvPath): O_CREATE|O_TRUNC, an existing file is emptied
         IF ok
         THEN StepRet([w EXCEPT !.defFile =
                          [content |-> "empty",
                           mode |-> IF isInstalled(w) THEN w.defFile.mode ELSE "0644"]],
                      "execpath", ErrNil, <<Ev("Create", 0, "", TRUE)>>)
         ELSE StepRet(w, "done", ErrIO, <<Ev("Create", 0, "", FALSE)>>)
    [] pc = "execpath" ->
         \* executablePath(linux.name)
         IF ok THEN StepRet(w, "render", ErrNil, <<>>) ELSE StepRet(w, "done", ErrIO, <<>>)
    [] pc = "render" ->
         \* templ.Execute(file, ...)
         IF ok
         THEN StepRet([w EXCEPT !.defFile.content = "rendered"],
                      IF b = "systemd" THEN "reload" ELSE "chmod", ErrNil,
                      <<Ev("Write", 0, "", TRUE)>>)
         ELSE StepRet([w EXCEPT !.defFile.content = "partial"], "done", ErrIO,
                      <<Ev("Write", 0, "", FALSE)>>)
    [] pc = "chmod" ->
         \* os.Chmod(srvPath, 0755)
         IF ok
         THEN StepRet([w EXCEPT !.defFile.mode = "0755"], "links", ErrNil,
                      <<Ev("Chmod", 0, "", TRUE)>>)
         ELSE StepRet(w, "done", ErrIO, <<Ev("Chmod", 0, "", FALSE)>>)
    [] pc = "links" ->
         \* the two symlink loops
         With(SymlinkAll(StartLevels, "S87", w.links, {}, 1), LAMBDA s :
           With(SymlinkAll(KillLevels, "K17", s.links, {}, 1), LAMBDA k :
             StepRet([w EXCEPT !.links = k.links], "done", ErrNil, s.log \o k.log)))
    [] pc = "reload" ->
         With(SystemctlCmd(w, "daemon-reload", [NoInput EXCEPT !.cmdOk = ok]), LAMBDA c :
           StepRet(c.w, IF c.ok THEN "enable" ELSE "done",
                   IF c.ok THEN ErrNil ELSE ErrExit, c.log))
    [] pc = "enable" ->
         With(SystemctlCmd(w, "enable", [NoInput EXCEPT !.cmdOk = ok]), LAMBDA c :
           StepRet(c.w, "done", IF c.ok THEN ErrNil ELSE ErrExit, c.log))

\* process p makes its next step
RaceStep(p) ==
  /\ racers[p].pc # "done"
  /\ \E ok \in BOOLEAN :
       \E r \in {InstallStep(backend, racers[p].pc, World, linux, ok)} :
         /\ racers' = [racers EXCEPT ![p] = [pc |-> r.pc, err |-> r.err,
                                              log |-> racers[p].log \o r.ev]]
         /\ defFile' = r.w.defFile
         /\ links' = r.w.links
         /\ enabled' = r.w.enabled
         /\ unit' = r.w.unit
         /\ pidfile' = r.w.pidfile
         /\ lockfile' = r.w.lockfile
         /\ alive' = r.w.alive
         /\ listener' = r.w.listener
  /\ UNCHANGED <<marker, backend, linux, call>>

RaceInit ==
  /\ marker \in BOOLEAN
  /\ backend = newDaemon(marker)
  /\ linux \in Descriptors
  /\ defFile = NoFile
  /\ links = {}
  /\ enabled = FALSE
  /\ unit = NoInput.unit2
  /\ pidfile = 0
  /\ lockfile = FALSE
  /\ alive = {}
  /\ listener = 0
  /\ call = [op |-> "none", priv |-> TRUE, msg |-> <<>>, err |-> ErrNil, log |-> <<>>,
             det |-> "n/a"]
  /\ racers = [p \in Racers |-> [pc |-> "privileges", err |-> ErrNil, log |-> <<>>]]

RaceNext == \E p \in Racers : RaceStep(p)

RaceSpec == RaceInit /\ [][RaceNext]_vars


\* ---------------------------------------------------------------- properties
\* the definition file is on disk
FileExists == defFile.content # "absent"

Ops == {"Install", "Remove", "Start", "Stop", "Restart", "Status", "ExecPath"}

\* the native commands (service / systemctl) a call issued, in order
Commands(log) == SelectSeq(log, LAMBDA e : e.e \in {"service", "systemctl"})
Issued(log, verb) == \E i \in 1..Len(log) : log[i].e \in {"service", "systemctl"} /\ log[i].arg = verb

\* C1: when the privilege check denies access, every operation of both backends
\* returns the privilege error and, in that call, changes no file or symlink and
\* issues no command, whatever the installed and running state is.
C1_DeniedCallChangesNothing ==
  [][(call'.op \in Ops /\ ~call'.priv)
       => /\ call'.err = ErrPermissionDenied
          /\ call'.log = <<>>
          /\ hostVars' = hostVars]_vars

\* a Remove was denied on an init-script host where the service is installed with
\* its symlinks: they are all still there
C1_Witness ==
  /\ backend = "systemv"
  /\ call.op = "Remove" /\ ~call.priv /\ call.err = ErrPermissionDenied
  /\ defFile.content = "rendered"
  /\ links # {}

\* C2: with privileges, an Install that follows an Install which left the
\* definition file in place returns ErrAlreadyInstalled, and creates, writes,
\* chmods, links and runs nothing.
C2_SecondInstallRejected ==
  [][(/\ call.op = "Install" /\ call.priv /\ FileExists
      /\ call'.op = "Install" /\ call'.priv)
       => /\ call'.err = ErrAlreadyInstalled
          /\ call'.log = <<>>
          /\ hostVars' = hostVars]_vars

C2_Witness ==
  /\ call.op = "Install" /\ call.priv /\ call.err = ErrAlreadyInstalled
  /\ defFile = [content |-> "rendered", mode |-> "0755"]

\* C3: with privileges, Remove of a service whose definition file does not exist
\* returns ErrNotInstalled and changes nothing: no rc symlink is deleted and no
\* disable command is issued.
C3_RemoveNotInstalled ==
  [][(call'.op = "Remove" /\ call'.priv /\ ~FileExists)
       => /\ call'.err = ErrNotInstalled
          /\ call'.log = <<>>
          /\ hostVars' = hostVars]_vars

\* Remove was refused on a host that has rc symlinks of the service's name
C3_Witness ==
  /\ call.op = "Remove" /\ call.priv /\ call.err = ErrNotInstalled
  /\ backend = "systemv"
  /\ links = LinkPaths


\* a message of checkRunning that says the service is running
IsRunningMsg(msg) == Contains(msg, W("is running..."))

\* the claim as first stated: whether or not the caller holds privileges
C4_Original ==
  [][(call'.op = "Status" /\ ~FileExists)
       => /\ call'.err = ErrNotInstalled
          /\ ~Issued(call'.log, "status")
          /\ ~IsRunningMsg(call'.msg)]_vars

\* C4: for both backends, Status of a service that is not installed never issues
\* the native status command and never returns a running message, whatever the
\* status tool would print; with privileges it returns ErrNotInstalled (without
\* them the privilege error comes first).
C4_StatusNotInstalled ==
  [][(call'.op = "Status" /\ ~FileExists)
       => /\ call'.err = (IF call'.priv THEN ErrNotInstalled ELSE ErrPermissionDenied)
          /\ call'.log = <<>>
          /\ call'.det = "n/a"
          /\ ~IsRunningMsg(call'.msg)]_vars

\* Status refused on a systemd host whose systemctl would have printed an active unit
C4_Witness ==
  /\ call.op = "Status" /\ call.priv /\ call.err = ErrNotInstalled
  /\ backend = "systemd"
  /\ ~FileExists
  /\ systemDParse(linux, unit.ok, unit.out).running

\* the processes, PID and lock file, and systemd's view of the unit
RunState == <<pidfile, lockfile, alive, listener, unit>>

\* C5: with privileges and the service installed, Start of a service detected
\* running returns ErrAlreadyRunning without the native start command, Stop of a
\* service detected stopped returns ErrAlreadyStopped without the native stop
\* command; the definition file and the running state are as before the call, and
\* the same call made again returns the same.
C5_Original ==
  [][/\ (call'.op = "Start" /\ call'.priv /\ FileExists /\ call'.det = "running")
          => /\ call'.err = ErrAlreadyRunning
             /\ ~Issued(call'.log, "start")
             /\ defFile' = defFile
             /\ RunState' = RunState
     /\ (call'.op = "Stop" /\ call'.priv /\ FileExists /\ call'.det = "stopped")
          => /\ call'.err = ErrAlreadyStopped
             /\ ~Issued(call'.log, "stop")
             /\ defFile' = defFile
             /\ RunState' = RunState
     /\ (call.op = call'.op /\ call.priv /\ call'.priv
         /\ call.err \in {ErrAlreadyRunning, ErrAlreadyStopped})
          => call'.err = call.err]_vars

\* the status sub-command of the service's init script as the host is now
ScriptStatus == ServiceCmd(World, linux, linux.name, "status", NoInput)

\* C6: with privileges and the service installed, Status returns a nil error; when
\* the service is stopped, when the native status command fails, and when its
\* output matches none of the parser's patterns, the message is
\* "Service <name> is stopped".
C6_StatusNeverFails ==
  [][(call'.op = "Status" /\ call'.priv /\ FileExists)
       => /\ call'.err = ErrNil
          /\ call'.det = "stopped" => call'.msg = msgStopped(linux)
          /\ (backend = "systemd"
              /\ (~unit.ok \/ ~ContainsKey(unit.out, "Active: active")))
               => call'.msg = msgStopped(linux)
          /\ (backend = "systemv"
              /\ (\/ ~ScriptStatus.ok
                  \/ ~ContainsKey(ScriptStatus.out, "running")
                  \/ ~ContainsKey(ScriptStatus.out, linux.name)))
               => call'.msg = msgStopped(linux)]_vars

\* Status of an installed service whose status command failed
C6_Witness ==
  /\ call.op = "Status" /\ call.priv /\ call.err = ErrNil
  /\ call.msg = msgStopped(linux)
  /\ \E i \in 1..Len(call.log) : call.log[i].arg = "status" /\ ~call.log[i].ok


\* the entries of a log made by file-system call e, and whether one of them failed
Calls(log, e) == SelectSeq(log, LAMBDA x : x.e = e)
Failed(log, e) == \E i \in 1..Len(log) : log[i].e = e /\ ~log[i].ok
FailedCmd(log, verb) ==
  \E i \in 1..Len(log) : log[i].e \in {"service", "systemctl"} /\ log[i].arg = verb /\ ~log[i].ok

\* the seven symlink paths in the order the two loops visit them
LinkOrder == << <<2, "S87">>, <<3, "S87">>, <<4, "S87">>, <<5, "S87">>,
                <<0, "K17">>, <<1, "K17">>, <<6, "K17">> >>
Targets(log, e) == [i \in 1..Len(Calls(log, e)) |-> <<Calls(log, e)[i].lvl, Calls(log, e)[i].arg>>]

\* the claim as first stated: Remove attempts every later step after a failed one
C7_Original ==
  /\ (call.op = "Remove" /\ backend = "systemv" /\ Failed(call.log, "RemoveFile"))
       => Targets(call.log, "Remove") = LinkOrder
  /\ (call.op = "Remove" /\ backend = "systemd" /\ FailedCmd(call.log, "disable"))
       => Len(Calls(call.log, "RemoveFile")) = 1

\* C7: Remove stops at the first step that fails before the symlinks: on the
\* init-script backend a failed deletion of the definition file ends the call with
\* that error and no symlink deletion is attempted, and once the file is deleted
\* each of the seven symlink deletions is attempted whichever of them fail; on the
\* systemd backend a failed disable ends the call and the unit file is not deleted.
C7_RemoveStopsAtFirstFailure ==
  /\ (call.op = "Remove" /\ backend = "systemv" /\ Failed(call.log, "RemoveFile"))
       => call.err = ErrIO /\ Calls(call.log, "Remove") = <<>> /\ FileExists
  /\ (call.op = "Remove" /\ backend = "systemv" /\ call.priv
      /\ Len(Calls(call.log, "RemoveFile")) = 1 /\ ~Failed(call.log, "RemoveFile"))
       => call.err = ErrNil /\ Targets(call.log, "Remove") = LinkOrder
  /\ (call.op = "Remove" /\ backend = "systemd" /\ FailedCmd(call.log, "disable"))
       => call.err = ErrExit /\ Calls(call.log, "RemoveFile") = <<>> /\ FileExists

\* a Remove whose file deletion worked, whose first symlink deletion failed and
\* which went on to delete a later symlink
C7_Witness ==
  /\ call.op = "Remove" /\ backend = "systemv" /\ call.err = ErrNil
  /\ ~Calls(call.log, "Remove")[1].ok
  /\ Calls(call.log, "Remove")[7].ok

\* C8: with privileges and the service installed, Restart issues the native
\* restart command exactly once and no other command, whether the service is
\* running or stopped; it never returns ErrAlreadyRunning or ErrAlreadyStopped and
\* returns an error exactly when that command failed.
C8_RestartUnconditional ==
  [][(call'.op = "Restart" /\ call'.priv /\ FileExists)
       => /\ Len(Commands(call'.log)) = 1
          /\ Commands(call'.log)[1].arg = "restart"
          /\ call'.err \notin {ErrAlreadyRunning, ErrAlreadyStopped}
          /\ (call'.err # ErrNil) <=> ~Commands(call'.log)[1].ok]_vars

\* a Restart that found the service running (it killed the recorded process)
\* and succeeded
C8_Witness ==
  /\ call.op = "Restart" /\ call.priv /\ call.err = ErrNil
  /\ \E i \in 1..Len(call.log) : call.log[i] = Ev("kill", call.log[i].lvl, "stop", TRUE)

\* the claim as first stated: success whenever the definition file was written
C9_Original ==
  (call.op = "Install" /\ backend = "systemv" /\ Calls(call.log, "Write") # <<>>
   /\ ~Failed(call.log, "Write"))
    => call.err = ErrNil /\ Targets(call.log, "Symlink") = LinkOrder

\* C9: on the init-script backend, once the definition file is written and made
\* executable, Install attempts the S87 symlink in rc2..5.d and the K17 symlink in
\* rc0,1,6.d, all seven whichever of them fail, and returns success; (a failing
\* chmod of the written file makes Install fail before any symlink).
C9_SymlinkFailuresNotFatal ==
  /\ (call.op = "Install" /\ backend = "systemv" /\ Calls(call.log, "Chmod") # <<>>
      /\ ~Failed(call.log, "Chmod"))
       => call.err = ErrNil /\ Targets(call.log, "Symlink") = LinkOrder
  /\ (call.op = "Install" /\ backend = "systemv" /\ Failed(call.log, "Chmod"))
       => call.err = ErrIO /\ Calls(call.log, "Symlink") = <<>>

\* an Install all of whose seven symlinks failed
C9_Witness ==
  /\ call.op = "Install" /\ backend = "systemv" /\ call.err = ErrNil
  /\ Len(Calls(call.log, "Symlink")) = 7
  /\ \A i \in 1..7 : ~Calls(call.log, "Symlink")[i].ok

\* the word an operation's message starts with
Verb(op) ==
  CASE op = "Install" -> "Install"
    [] op = "Remove" -> "Removing"
    [] op = "Start" -> "Starting"
    [] op = "Stop" -> "Stopping"
    [] op = "Restart" -> "Restarting"
    [] op = "Status" -> "Status"
    [] op = "ExecPath" -> "ExecPath"
    [] OTHER -> ""
Mutating == {"Install", "Remove", "Start", "Stop", "Restart"}
Marked(msg, mark) == msg # <<>> /\ msg[Len(msg)] = mark

\* the claim as first stated: every operation's message names the action and
\* carries the mark that matches the error
C10_Original ==
  call.op \in Ops
    => /\ call.msg # <<>> /\ call.msg[1] = W(Verb(call.op))
       /\ call.err # ErrNil => Marked(call.msg, failed)
       /\ (call.err = ErrNil /\ call.op \in Mutating) => Marked(call.msg, success)

\* C10: Install, Remove, Start, Stop and Restart of both backends return
\* "<action> <description>:" followed by the failed mark with every non-nil error
\* and by the success mark with a nil error. Status and ExecPath do not: they
\* return an empty message with the privilege error, "Status could not defined"
\* resp. an empty message with ErrNotInstalled, and otherwise the status line
\* resp. the command's output, none of which carries a mark.
C10_ActionMessages ==
  /\ call.op \in Mutating
       => call.msg = Append(Action(Verb(call.op), linux),
                            IF call.err = ErrNil THEN success ELSE failed)
  /\ call.op \in {"Status", "ExecPath"}
       => /\ ~Marked(call.msg, failed) /\ ~Marked(call.msg, success)
          /\ call.err = ErrPermissionDenied => call.msg = <<>>
          /\ call.err = ErrNotInstalled
               => call.msg = (IF call.op = "Status" THEN <<W("Status could not defined")>>
                              ELSE <<>>)

\* a Stop whose native command failed
C10_Witness ==
  /\ call.op = "Stop" /\ call.err = ErrExit
  /\ Marked(call.msg, failed)

\* strings.Contains(text, s): the characters of s occur, in a row, in the text
StrContains(text, s) ==
  \E i \in 1..Len(text) :
    \E off \in 0..(Len(Spell(text[i].k)) - Len(Spell(s))) :
      \A j \in 1..Len(Spell(s)) : Spell(s)[j] = Spell(text[i].k)[off + j]

\* the numbers that follow the occurrences of key in a text, in order
NumsAfter(text, key) == SelectSeq(text, LAMBDA t : t.k = key)

\* C11: the systemd backend's checkRunning reports running exactly when
\* `systemctl status` succeeded and printed "Active: active"; a running report
\* carries the digits of the first "Main PID: <digits>" of the output, or no PID
\* when there is none; every other answer gives "Service <name> is stopped".
C11_SystemdParser ==
  (backend = "systemd" /\ call.op = "checkRunning")
    => /\ (call.det = "running") <=> (unit.ok /\ Contains(unit.out, W("Active: active")))
       /\ call.det = "running"
            => call.msg = (IF NumsAfter(unit.out, "Main PID: ") # <<>>
                           THEN msgRunningPid(linux, NumsAfter(unit.out, "Main PID: ")[1].v)
                           ELSE msgRunning(linux))
       /\ call.det = "stopped" => call.msg = msgStopped(linux)

\* an output with two Main PID lines around the Active line: the report carries
\* the PID of the one that stands first
C11_Witness ==
  /\ backend = "systemd" /\ call.op = "checkRunning"
  /\ unit.out = <<Num("Main PID: ", 2), W("Active: active"), Num("Main PID: ", 1)>>
  /\ call.msg = msgRunningPid(linux, 2)

\* C12: the init-script backend's checkRunning reports running exactly when
\* `service <name> status` succeeded and its output matches "running" and
\* contains the service name; a running report carries the digits of the first
\* "pid  <digits>", or no PID; every other answer gives "Service <name> is stopped".
C12_Original ==
  (backend = "systemv" /\ call.op = "checkRunning")
    => /\ (call.det = "running")
            <=> (unit.ok /\ Contains(unit.out, W("running"))
                 /\ StrContains(unit.out, linux.name))
       /\ call.det = "running"
            => call.msg = (IF NumsAfter(unit.out, "pid  ") # <<>>
                           THEN msgRunningPid(linux, NumsAfter(unit.out, "pid  ")[1].v)
                           ELSE msgRunning(linux))
       /\ call.det = "stopped" => call.msg = msgStopped(linux)

\* C13: the backend is the one newDaemon chose from /run/systemd/system, and no
\* step changes it or a field of the descriptor, whether an operation or the
\* marker appearing or disappearing; every command a call issues is the chosen
\* backend's (systemctl for systemd, service for the init script), whatever the
\* marker says by then.
C13_BackendChosenOnce ==
  /\ backend = newDaemon(marker)
  /\ [][/\ backend' = backend
        /\ linux' = linux
        /\ call'.op \in Ops
             => \A i \in 1..Len(Commands(call'.log)) :
                  Commands(call'.log)[i].e
                    = (IF backend = "systemd" THEN "systemctl" ELSE "service")]_vars

\* the marker has appeared since newDaemon chose the init-script backend, and a
\* Start has run the service command all the same
C13_Witness ==
  /\ marker /\ backend = "systemv"
  /\ call.op = "Start" /\ call.err = ErrNil
  /\ Issued(call.log, "start")

\* what the live status command says of the service as the host is now
LiveRunning ==
  IF backend = "systemd" THEN systemDParse(linux, unit.ok, unit.out).running
  ELSE systemVParse(linux, ScriptStatus.ok, ScriptStatus.out).running

\* C14: in every operation of both backends the privilege error is decided first
\* and ErrNotInstalled next, before any status or action command: Start, Stop,
\* Restart and ExecPath of a service whose definition file is absent return
\* ErrNotInstalled and run nothing, and never ErrAlreadyRunning/ErrAlreadyStopped.
\* Nothing is remembered from one call to the next: whether a call finds the
\* service installed, and running, is what the definition file and the status
\* command say when that call is made, whoever changed them in between.
C14_GuardOrderNoCache ==
  [][/\ (call'.op \in Ops /\ ~call'.priv) => call'.err = ErrPermissionDenied
     /\ (call'.op \in {"Start", "Stop", "Restart", "ExecPath"} /\ call'.priv /\ ~FileExists)
          => /\ call'.err = ErrNotInstalled
             /\ call'.log = <<>>
             /\ call'.det = "n/a"
             /\ hostVars' = hostVars
     /\ (call'.op \in Ops \ {"Install"} /\ call'.priv)
          => ((call'.err = ErrNotInstalled) <=> ~FileExists)
     /\ (call'.op = "Install" /\ call'.priv)
          => ((call'.err = ErrAlreadyInstalled) <=> FileExists)
     /\ (call'.op \in {"Start", "Stop", "Status"} /\ call'.priv /\ FileExists)
          => /\ call'.det = (IF LiveRunning THEN "running" ELSE "stopped")
             /\ call'.op = "Start" => ((call'.err = ErrAlreadyRunning) <=> LiveRunning)
             /\ call'.op = "Stop" => ((call'.err = ErrAlreadyStopped) <=> ~LiveRunning)]_vars

\* the service was started and its definition file has gone since: Stop says not
\* installed although the process the PID file names is alive
C14_Witness ==
  /\ backend = "systemv"
  /\ call.op = "Stop" /\ call.priv /\ call.err = ErrNotInstalled
  /\ pidfile # 0 /\ pidfile \in alive

\* the symlinks an Install made: those of its Symlink calls that succeeded
Created(log) ==
  {<<log[i].lvl, log[i].arg>> : i \in {j \in 1..Len(log) : log[j].e = "Symlink" /\ log[j].ok}}

\* C15: on the init-script backend a successful Remove that follows a successful
\* Install leaves no definition file and leaves the rc symlinks as they were before
\* that Install: it deletes the links the Install made and no other. (Stated for a
\* Remove none of whose deletions of an existing link failed.)
C15_Original ==
  [][(/\ backend = "systemv"
      /\ call.op = "Install" /\ call.err = ErrNil
      /\ call'.op = "Remove" /\ call'.err = ErrNil
      /\ \A i \in 1..Len(call'.log) :
           (call'.log[i].e = "Remove" /\ <<call'.log[i].lvl, call'.log[i].arg>> \in links)
             => call'.log[i].ok)
       => /\ defFile' = NoFile
          /\ links' = links \ Created(call.log)]_vars

\* the step an entry of a call's log stands for
Kind(e) == IF e.e = "systemctl" THEN e.arg ELSE e.e

\* the log follows the given order of steps from its first one, and every step
\* but the last one made succeeded
InOrder(log, order) ==
  /\ Len(log) <= Len(order)
  /\ \A i \in 1..Len(log) : Kind(log[i]) = order[i] /\ (i < Len(log) => log[i].ok)

\* C16: on the systemd backend Install creates and writes the unit file, then
\* runs daemon-reload, then enable, each step only after the one before it
\* succeeded (so enable is never run after a failed daemon-reload), and returns
\* success exactly when all of them succeeded; Remove runs disable and deletes
\* the unit file only after disable succeeded, so a failed disable leaves the
\* file in place.
C16_SystemdStepOrder ==
  /\ (backend = "systemd" /\ call.op = "Install")
       => /\ InOrder(call.log, <<"Create", "Write", "daemon-reload", "enable">>)
          /\ (call.err = ErrNil) <=> (Len(call.log) = 4 /\ call.log[4].ok)
          /\ FailedCmd(call.log, "daemon-reload") => ~Issued(call.log, "enable")
  /\ (backend = "systemd" /\ call.op = "Remove")
       => /\ InOrder(call.log, <<"disable", "RemoveFile">>)
          /\ (call.err = ErrNil) <=> (Len(call.log) = 2 /\ call.log[2].ok)
          /\ FailedCmd(call.log, "disable")
               => (Calls(call.log, "RemoveFile") = <<>> /\ FileExists)

\* an Install whose daemon-reload failed
C16_Witness ==
  /\ backend = "systemd" /\ call.op = "Install"
  /\ FailedCmd(call.log, "daemon-reload")
  /\ call.err = ErrExit

\* C17: an Install called with privileges on a service that is not installed and
\* returning an error leaves no definition file behind: the service is still not
\* installed, and the next Install is not turned away with ErrAlreadyInstalled.
C17_Original ==
  (call.op = "Install" /\ call.priv /\ call.err \notin {ErrNil, ErrAlreadyInstalled})
    => ~FileExists

\* C18: on the init-script backend, whenever the rendered script's status
\* sub-command reports the service running (exit status 0 and
\* "<description> is running [pid  <n>]"), checkRunning reports it running with
\* PID <n>: Status says so, Start returns ErrAlreadyRunning and Stop does not
\* return ErrAlreadyStopped.
C18_Original ==
  [][(/\ backend = "systemv"
      /\ call'.op \in {"Start", "Stop", "Status"} /\ call'.priv
      /\ ScriptStatus.ok)
       => /\ call'.det = "running"
          /\ call'.op = "Status"
               => call'.msg = msgRunningPid(linux, FirstNum(ScriptStatus.out, "pid  "))
          /\ call'.op = "Start" => call'.err = ErrAlreadyRunning
          /\ call'.op = "Stop" => call'.err # ErrAlreadyStopped]_vars

\* the last call launched the service through the script's start sub-command, and
\* the process is alive with its PID in the PID file
JustLaunched ==
  /\ call.op \in {"Start", "Restart"}
  /\ pidfile # 0 /\ pidfile \in alive
  /\ \E i \in 1..Len(call.log) : call.log[i] = Ev("exec", pidfile, "start", TRUE)

\* C19: the status sub-command of the rendered init script only reads: a Status
\* call made while the process that start launched is alive leaves that process
\* alive and the PID file and lock file as they are, also when nothing listens on
\* the configured port; and no call's status probe sends a kill signal.
C19_Original ==
  [][/\ (backend = "systemv" /\ JustLaunched /\ call'.op = "Status" /\ call'.priv)
          => /\ pidfile \in alive'
             /\ pidfile' = pidfile
             /\ lockfile' = lockfile
     /\ call'.op \in Ops
          => \A i \in 1..Len(call'.log) :
               ~(call'.log[i].e = "kill" /\ call'.log[i].arg = "status")]_vars

\* every racing Install has returned
AllReturned == \A p \in Racers : racers[p].pc = "done"
Succeeded(p) == racers[p].pc = "done" /\ racers[p].err = ErrNil
DidStep(p, e, ok) == \E i \in 1..Len(racers[p].log) : racers[p].log[i] = Ev(e, 0, "", ok)

\* the claim as first stated: of the racing privileged Installs of a service that
\* is not installed at most one succeeds, the others return ErrAlreadyInstalled,
\* and the file on disk at the end is the complete rendering (stated for runs in
\* which no system call or command fails)
C20_Original ==
  (AllReturned /\ \A p \in Racers : racers[p].err \in {ErrNil, ErrAlreadyInstalled})
    => /\ Cardinality({p \in Racers : Succeeded(p)}) <= 1
       /\ \A q \in Racers : ~Succeeded(q) => racers[q].err = ErrAlreadyInstalled
       /\ defFile.content = "rendered"

\* C20: Install is not exclusive across processes. A process returns
\* ErrAlreadyInstalled only when another process had created the definition file
\* before its installed check, and then it has made no step of its own; processes
\* whose checks all ran before the first create all go on. When all have returned,
\* a process that returned success leaves a file on disk, and that file is the
\* complete rendering provided every process that created (and so emptied) it
\* also wrote it completely.
C20_InstallRace ==
  /\ \A p \in Racers :
       (racers[p].pc = "done" /\ racers[p].err = ErrAlreadyInstalled)
         => /\ racers[p].log = <<>>
            /\ \E q \in Racers \ {p} : DidStep(q, "Create", TRUE)
  /\ \A p \in Racers : Succeeded(p) => FileExists
  /\ (/\ AllReturned
      /\ \E p \in Racers : DidStep(p, "Create", TRUE)
      /\ \A p \in Racers : DidStep(p, "Create", TRUE) => DidStep(p, "Write", TRUE))
       => defFile.content = "rendered"

\* two Installs of the same service have both returned success
C20_Witness ==
  /\ AllReturned
  /\ Succeeded(1) /\ Succeeded(2)

====
